---- MODULE Spec2Model ----
(***************************************************************************)
(* Model of Kromey/fbxnano:                                                *)
(*   - forum/templatetags/forum_extras.py : make_tree, the nested-set      *)
(*     thread renderer;                                                    *)
(*   - prosodyauth/models.py : Prosody.save and User._get_lastlog with the *)
(*     xmpp_* properties built on it;                                      *)
(*   - prosodyauth/prosody/datastore.py : ProsodyDatastore.get_data_store. *)
(***************************************************************************)
EXTENDS Integers, Sequences, FiniteSets, TLC

(***************************************************************************)
(* Bounds                                                                  *)
(***************************************************************************)
\* arbitrary (possibly malformed) input of make_tree
MaxPosts == 2
MaxCoord == 5
\* well-formed, sorted input of make_tree
WFMaxPosts == 4
WFMaxCoord == 10
\* rows the prosody table may hold
MaxRows == 2

VARIABLES
    \* ---- make_tree ----
    posts,          \* argument: sequence of [pk, left, right]
    current_post,   \* argument: pk of the focus post, 0 for None
    idx,            \* position of the for loop in posts
    levels,         \* list of pending right boundaries
    depth,          \* depth counter
    html,           \* output so far, a sequence of markup tokens
    pc,             \* position inside make_tree
    result,         \* value returned by make_tree
    \* ---- prosody store ----
    table,          \* rows of the prosody table
    inst,           \* User instances: per-instance attribute _lastlog_data
    cls,            \* class attribute User._lastlog_data
    ret             \* outcome of the last store operation

treeVars  == <<posts, current_post, idx, levels, depth, html, pc, result>>
storeVars == <<table, inst, cls, ret>>
vars      == <<posts, current_post, idx, levels, depth, html, pc, result,
               table, inst, cls, ret>>

(***************************************************************************)
(* make_tree: markup tokens                                                *)
(***************************************************************************)
\* '<div class="post-tree">'
WrapperOpen == [tag |-> "open", class |-> "post-tree", pk |-> 0, link |-> FALSE]
\* '</div>'
CloseTag    == [tag |-> "close", class |-> "", pk |-> 0, link |-> FALSE]

\* post == current_post: Django compares model instances by primary key;
\* current_post = None (0 here) equals no post
IsCurrent(post, current) == current # 0 /\ post.pk = current

\* the line chosen at lines 27-30 and formatted at lines 32-41: a '<div>'
\* holding either the plain title or a link to the post's own view
Line(post, current) ==
    IF IsCurrent(post, current)
    THEN [tag |-> "open", class |-> "", pk |-> post.pk, link |-> FALSE]
    ELSE [tag |-> "open", class |-> "", pk |-> post.pk, link |-> TRUE]

\* str * n: n copies, none when n <= 0
Repeat(tok, n) == [k \in 1..(IF n > 0 THEN n ELSE 0) |-> tok]

\* levels[-1]: raises IndexError on an empty list
LevelsTop(lv) ==
    IF lv = <<>> THEN [exc |-> "IndexError", val |-> 0]
    ELSE [exc |-> "none", val |-> lv[Len(lv)]]

\* the while condition of line 20
WhileCondReversed(lv, left) == LevelsTop(lv).val > left
WhileCond(lv, left) == LevelsTop(lv).val < left

\* depth -= 1 (line 23)
DepthAfterPopKept(d) == d
DepthAfterPop(d) == d - 1

\* except IndexError (line 24)
HandlesKeyError(exc) == exc = "KeyError"
Handles(exc) == exc = "IndexError"

\* post.right - post.left > 1 (line 43)
HasDescendantsFromOne(post) == post.right - post.left >= 1
HasDescendants(post) == post.right - post.left > 1

\* what a post without descendants adds to the output (lines 32-41, 48)
LeafMarkupUnclosed(post, current) == <<Line(post, current)>>
LeafMarkup(post, current) == <<Line(post, current), CloseTag>>

\* mark_safe(html)
MarkSafe(h) == [safe |-> TRUE, html |-> h]

NoResult == [safe |-> FALSE, html |-> <<>>]

(***************************************************************************)
(* make_tree: inputs                                                       *)
(***************************************************************************)
MkPost(k, l, r) == [pk |-> k, left |-> l, right |-> r]

Pairs(n) == (1..n) \X (1..n)

\* the posts with boundaries f[1], f[2], ...; the pk of a post is its position
PostsOf(f) == [k \in 1..Len(f) |-> MkPost(k, f[k][1], f[k][2])]

\* interval a strictly contains interval b
Contains(a, b) == a.left < b.left /\ b.right < a.right
\* intervals a and b have no point in common
Disjoint(a, b) == a.right < b.left \/ b.right < a.left

WellFormed(s) ==
    /\ \A i \in 1..Len(s) : s[i].left < s[i].right
    /\ \A i, j \in 1..Len(s) :
          i # j => Disjoint(s[i], s[j]) \/ Contains(s[i], s[j]) \/ Contains(s[j], s[i])

SortedByLeft(s) == \A i, j \in 1..Len(s) : i < j => s[i].left <= s[j].left

\* the well-formed sequences sorted by left, built one post at a time
RECURSIVE WFPosts(_)
WFPosts(n) ==
    IF n = 0 THEN { <<>> }
    ELSE LET shorter == WFPosts(n - 1)
             longest == { s \in shorter : Len(s) = n - 1 }
         IN  shorter \cup
             UNION { { Append(s, MkPost(n, p[1], p[2])) :
                         p \in { q \in Pairs(WFMaxCoord) :
                                   LET t == Append(s, MkPost(n, q[1], q[2]))
                                   IN  WellFormed(t) /\ SortedByLeft(t) } } :
                     s \in longest }

(***************************************************************************)
(* Text: names and values are sequences of characters                      *)
(***************************************************************************)
LowerCase == <<"a","b","c","d","e","f","g","h","i","j","k","l","m",
               "n","o","p","q","r","s","t","u","v","w","x","y","z">>
UpperCase == <<"A","B","C","D","E","F","G","H","I","J","K","L","M",
               "N","O","P","Q","R","S","T","U","V","W","X","Y","Z">>
DigitChars == <<"0","1","2","3","4","5","6","7","8","9">>

\* SQL UPPER() / the folding behind Django's iexact
UpperChar(c) ==
    IF \E i \in 1..26 : LowerCase[i] = c
    THEN UpperCase[CHOOSE i \in 1..26 : LowerCase[i] = c]
    ELSE c
Chars ==
    { LowerCase[i] : i \in 1..26 } \cup { UpperCase[i] : i \in 1..26 }
        \cup { DigitChars[i] : i \in 1..10 } \cup {".", "-", "+"}
UpperTable == [c \in Chars |-> UpperChar(c)]
Upper(t) == [i \in 1..Len(t) |-> UpperTable[t[i]]]

IsDigit(c)  == \E i \in 1..10 : DigitChars[i] = c
DigitVal(c) == (CHOOSE i \in 1..10 : DigitChars[i] = c) - 1

RECURSIVE DecimalValue(_)
DecimalValue(t) ==
    IF t = <<>> THEN 0
    ELSE 10 * DecimalValue(SubSeq(t, 1, Len(t) - 1)) + DigitVal(t[Len(t)])

\* Python int(text): an optional sign followed by at least one digit;
\* anything else raises ValueError
ParseInt(t) ==
    LET signed == t # <<>> /\ t[1] \in {"-", "+"}
        digits == IF signed THEN Tail(t) ELSE t
    IN  IF digits = <<>> \/ \E i \in 1..Len(digits) : ~IsDigit(digits[i])
        THEN [exc |-> "ValueError", val |-> 0]
        ELSE [exc |-> "none",
              val |-> IF signed /\ t[1] = "-" THEN 0 - DecimalValue(digits)
                      ELSE DecimalValue(digits)]

(***************************************************************************)
(* Python values handed back to callers                                    *)
(***************************************************************************)
PyNone        == [kind |-> "None", n |-> 0, s |-> <<>>]
PyInt(i)      == [kind |-> "int", n |-> i, s |-> <<>>]
PyStr(t)      == [kind |-> "str", n |-> 0, s |-> t]
PyBool(b)     == [kind |-> "bool", n |-> IF b THEN 1 ELSE 0, s |-> <<>>]
PyDatetime(i) == [kind |-> "datetime", n |-> i, s |-> <<>>]

\* dict: a function from keys to values
EmptyDict == [k \in {} |-> PyNone]
DictPut(d, k, v) == [x \in (DOMAIN d) \cup {k} |-> IF x = k THEN v ELSE d[x]]
\* dict.get(key)
DictGet(d, k) == IF k \in DOMAIN d THEN d[k] ELSE PyNone

(***************************************************************************)
(* The prosody table (models.py lines 31-36, 53-57)                        *)
(***************************************************************************)
Types == {"string", "number", "json", "boolean"}

MkRow(h, u, s, k, t, v) ==
    [host |-> h, user |-> u, store |-> s, key |-> k, type |-> t, value |-> v]

NoRow == MkRow(<<>>, <<>>, "", "", "", <<>>)

\* unique_together = (("user","store","key"),)
SameUnique(a, b) == a.user = b.user /\ a.store = b.store /\ a.key = b.key

\* the orders in which a query may hand back a set of rows
Orders(rows) ==
    { f \in [1..Cardinality(rows) -> rows] :
        \A i, j \in 1..Cardinality(rows) : i # j => f[i] # f[j] }

\* Prosody.save, lines 40-49: the type is set from store and key
SaveTypeKeyFirst(store, key) ==
    IF store = "lastlog" /\ key = "timestamp" THEN "number"
    ELSE IF store = "accounts" /\ key = "iterations" THEN "number"
    ELSE IF key = "persistence" THEN "boolean"
    ELSE IF store = "roster" THEN "json"
    ELSE "string"
SaveType(store, key) ==
    IF store = "lastlog" /\ key = "timestamp" THEN "number"
    ELSE IF store = "accounts" /\ key = "iterations" THEN "number"
    ELSE IF store = "roster" THEN "json"
    ELSE IF key = "persistence" THEN "boolean"
    ELSE "string"

\* super().save() of an object without primary key: INSERT
DbInsert(tbl, row) ==
    IF \E r \in tbl : SameUnique(r, row)
    THEN [exc |-> "IntegrityError", table |-> tbl]
    ELSE [exc |-> "none", table |-> tbl \cup {row}]

\* super().save() of an object loaded from the table: UPDATE of its row
DbUpdate(tbl, old, row) ==
    IF \E r \in tbl \ {old} : SameUnique(r, row)
    THEN [exc |-> "IntegrityError", table |-> tbl]
    ELSE [exc |-> "none", table |-> (tbl \ {old}) \cup {row}]

(***************************************************************************)
(* ProsodyDatastore.get_data_store (datastore.py lines 6-16)               *)
(***************************************************************************)
\* WHERE UPPER("user")=UPPER(%s) AND UPPER(host)=UPPER(%s) AND store=%s
MatchesDataStoreExactHost(r, username, domain, store) ==
    /\ Upper(r.user) = Upper(username)
    /\ r.host = domain
    /\ r.store = store
MatchesDataStore(r, username, domain, store) ==
    /\ Upper(r.user) = Upper(username)
    /\ Upper(r.host) = Upper(domain)
    /\ r.store = store

\* dict(cursor.fetchall()): a later (key, value) pair replaces an earlier one
RECURSIVE DictOfRows(_, _)
DictOfRows(items, n) ==
    IF n = 0 THEN EmptyDict
    ELSE DictPut(DictOfRows(items, n - 1), items[n].key, PyStr(items[n].value))

(***************************************************************************)
(* User._lastlog_data and User._get_lastlog (models.py lines 76, 123-146)  *)
(***************************************************************************)
\* value of the attribute _lastlog_data: None or a dict
AttrNone    == [none |-> TRUE, data |-> EmptyDict]
AttrDict(d) == [none |-> FALSE, data |-> d]

\* self._lastlog_data: the instance's own attribute when it has been
\* assigned, the class attribute of line 76 otherwise
LastlogData(I, C, u) == IF I[u].set THEN I[u].attr ELSE C

\* self._lastlog_data = ... binds the attribute on the instance
SetLastlogDataOnClass(I, C, u, a) == [inst |-> I, cls |-> a]
SetLastlogData(I, C, u, a) ==
    [inst |-> [I EXCEPT ![u].set = TRUE, ![u].attr = a], cls |-> C]

\* Prosody.objects.filter(user__iexact=self.username, store='lastlog')
MatchesLastlog(r, username) ==
    /\ Upper(r.user) = Upper(username)
    /\ r.store = "lastlog"

\* lines 139-144: what is stored for one row; int() may raise
CoerceNever(item) == [exc |-> "none", val |-> PyStr(item.value)]
Coerce(item) ==
    IF item.type = "number"
    THEN [exc |-> ParseInt(item.value).exc, val |-> PyInt(ParseInt(item.value).val)]
    ELSE [exc |-> "none", val |-> PyStr(item.value)]

\* the loop of lines 137-144 from position i on: the dict is filled in
\* place, so a raising int() leaves the entries stored before it
RECURSIVE FillLastlog(_, _, _)
FillLastlog(items, i, d) ==
    IF i > Len(items) THEN [exc |-> "none", data |-> d]
    ELSE IF Coerce(items[i]).exc # "none"
         THEN [exc |-> Coerce(items[i]).exc, data |-> d]
         ELSE FillLastlog(items, i + 1, DictPut(d, items[i].key, Coerce(items[i]).val))

\* _get_lastlog(key) on instance u with the rows arriving as items:
\* the new attribute bindings, whether the store was read, and the outcome
GetLastlog(I, C, u, key, items) ==
    IF LastlogData(I, C, u).none
    THEN LET filled == FillLastlog(items, 1, EmptyDict)
             bound  == SetLastlogData(I, C, u, AttrDict(filled.data))
         IN  [inst |-> bound.inst, cls |-> bound.cls, fetched |-> TRUE,
              exc |-> filled.exc,
              val |-> IF filled.exc = "none"
                      THEN DictGet(LastlogData(bound.inst, bound.cls, u).data, key)
                      ELSE PyNone]
    ELSE [inst |-> I, cls |-> C, fetched |-> FALSE, exc |-> "none",
          val |-> DictGet(LastlogData(I, C, u).data, key)]

\* datetime.utcfromtimestamp(x): TypeError unless x is a number
UtcFromTimestamp(v) ==
    IF v.kind = "int" THEN [exc |-> "none", val |-> PyDatetime(v.n)]
    ELSE [exc |-> "TypeError", val |-> PyNone]

(***************************************************************************)
(* Store: inputs and outcome records                                       *)
(***************************************************************************)
Bob   == <<"b","o","b">>
BobC  == <<"B","o","b">>
BOB   == <<"B","O","B">>
Amy   == <<"a","m","y">>
XOrg  == <<"x",".","o","r","g">>
XORG  == <<"X",".","O","R","G">>
YOrg  == <<"y",".","o","r","g">>
Ten   == <<"1","0">>
Login == <<"l","o","g","i","n">>
Seven == <<"7">>

Instances == {"u1", "u2"}
InstanceUsername(u) == IF u = "u1" THEN Bob ELSE BOB

\* outcome of an operation: the exception raised ("none" when it returned),
\* the value returned, and what the operation was called with
Ret(op, u, key, args, fetched, exc, got, val, map, row, old, prior) ==
    [op |-> op, inst |-> u, key |-> key, args |-> args, fetched |-> fetched,
     exc |-> exc, got |-> got, val |-> val, map |-> map, row |-> row,
     old |-> old, prior |-> prior]

NoArgs == <<<<>>, <<>>, "">>
NoRet  ==
    Ret("none", "", "", NoArgs, FALSE, "none", PyNone, PyNone, EmptyDict, NoRow, NoRow, "")

SaveRet(exc, row, old, prior) ==
    Ret("save", "", "", NoArgs, FALSE, exc, PyNone, PyNone, EmptyDict, row, old, prior)

DataStoreRet(username, domain, store, map) ==
    Ret("get_data_store", "", "", <<username, domain, store>>, TRUE, "none",
        PyNone, PyNone, map, NoRow, NoRow, "")

\* g is the outcome of the _get_lastlog call the operation made
LastlogRet(op, u, key, g, exc, val) ==
    Ret(op, u, key, NoArgs, g.fetched, exc, g.val, val, EmptyDict, NoRow, NoRow, "")

LastlogOps == {"_get_lastlog", "xmpp_online", "xmpp_last_login", "xmpp_last_ip"}

\* no row written, no instance has fetched, User._lastlog_data = None
InitStore ==
    /\ table = {}
    /\ inst = [u \in Instances |->
                 [username |-> InstanceUsername(u), set |-> FALSE, attr |-> AttrNone]]
    /\ cls = AttrNone
    /\ ret = NoRet

(***************************************************************************)
(* make_tree: the state machine                                            *)
(***************************************************************************)

TreeStart ==
    /\ idx = 0
    /\ levels = <<>>                  \* line 14
    /\ depth = 0                      \* line 15
    /\ html = <<WrapperOpen>>         \* line 16
    /\ pc = "for"
    /\ result = NoResult

\* every sequence of at most MaxPosts posts with boundaries in 1..MaxCoord,
\* malformed ones included
InitTree ==
    /\ \E n \in 0..MaxPosts : \E f \in [1..n -> Pairs(MaxCoord)] : posts = PostsOf(f)
    /\ current_post \in {0, 1}         \* None, or the post with pk 1
    /\ TreeStart
    /\ InitStore

InitTreeWF ==
    /\ posts \in WFPosts(WFMaxPosts)
    /\ current_post \in 0..WFMaxPosts
    /\ TreeStart
    /\ InitStore

\* for post in posts: the next post is taken
ForNext ==
    /\ pc = "for"
    /\ idx < Len(posts)
    /\ idx' = idx + 1
    /\ pc' = "while"
    /\ UNCHANGED <<posts, current_post, levels, depth, html, result>>
    /\ UNCHANGED storeVars

\* while levels[-1] < post.left, on an empty list: IndexError, handled by
\* the except clause (or propagating out of make_tree when it is not)
WhileIndexError ==
    /\ pc = "while"
    /\ LevelsTop(levels).exc # "none"
    /\ pc' = IF Handles(LevelsTop(levels).exc) THEN "emit" ELSE "fault"
    /\ UNCHANGED <<posts, current_post, idx, levels, depth, html, result>>
    /\ UNCHANGED storeVars

\* the condition holds: enter the loop body
WhileTrue ==
    /\ pc = "while"
    /\ LevelsTop(levels).exc = "none"
    /\ WhileCond(levels, posts[idx].left)
    /\ pc' = "body"
    /\ UNCHANGED <<posts, current_post, idx, levels, depth, html, result>>
    /\ UNCHANGED storeVars

\* the condition fails: leave the loop
WhileFalse ==
    /\ pc = "while"
    /\ LevelsTop(levels).exc = "none"
    /\ ~WhileCond(levels, posts[idx].left)
    /\ pc' = "emit"
    /\ UNCHANGED <<posts, current_post, idx, levels, depth, html, result>>
    /\ UNCHANGED storeVars

\* lines 21-23; levels.pop() on an empty list raises IndexError
WhileBody ==
    /\ pc = "body"
    /\ html' = Append(html, CloseTag)
    /\ IF levels = <<>>
       THEN /\ pc' = IF Handles("IndexError") THEN "emit" ELSE "fault"
            /\ UNCHANGED <<levels, depth>>
       ELSE /\ levels' = SubSeq(levels, 1, Len(levels) - 1)
            /\ depth' = DepthAfterPop(depth)
            /\ pc' = "while"
    /\ UNCHANGED <<posts, current_post, idx, result>>
    /\ UNCHANGED storeVars

\* lines 27-46 for a post with descendants
EmitPush ==
    /\ pc = "emit"
    /\ HasDescendants(posts[idx])
    /\ html' = Append(html, Line(posts[idx], current_post))
    /\ levels' = Append(levels, posts[idx].right)
    /\ depth' = Len(levels')
    /\ pc' = "for"
    /\ UNCHANGED <<posts, current_post, idx, result>>
    /\ UNCHANGED storeVars

\* lines 27-41 and 47-48 for a post without descendants
EmitLeaf ==
    /\ pc = "emit"
    /\ ~HasDescendants(posts[idx])
    /\ html' = html \o LeafMarkup(posts[idx], current_post)
    /\ pc' = "for"
    /\ UNCHANGED <<posts, current_post, idx, levels, depth, result>>
    /\ UNCHANGED storeVars

\* the loop is exhausted: lines 50-53
Return ==
    /\ pc = "for"
    /\ idx = Len(posts)
    /\ html' = (html \o Repeat(CloseTag, depth)) \o <<CloseTag>>
    /\ result' = MarkSafe(html')
    /\ pc' = "done"
    /\ UNCHANGED <<posts, current_post, idx, levels, depth>>
    /\ UNCHANGED storeVars

NextTree ==
    \/ ForNext
    \/ WhileIndexError
    \/ WhileTrue
    \/ WhileFalse
    \/ WhileBody
    \/ EmitPush
    \/ EmitLeaf
    \/ Return

SpecTree   == InitTree /\ [][NextTree]_vars
SpecTreeWF == InitTreeWF /\ [][NextTree]_vars
\* make_tree runs to completion once called
FairSpecTree == InitTree /\ [][NextTree]_vars /\ WF_vars(NextTree)
(***************************************************************************)
(* The store: operations                                                   *)
(***************************************************************************)
TreeIdle ==
    /\ posts = <<>>
    /\ current_post = 0
    /\ TreeStart

InitStoreOnly == TreeIdle /\ InitStore

\* Prosody(host=h, user=u, store=s, key=k, type=t, value=v).save()
SaveNew(h, u, s, k, t, v) ==
    /\ Cardinality(table) < MaxRows
    /\ LET self == MkRow(h, u, s, k, SaveType(s, k), v)
           db   == DbInsert(table, self)
       IN  /\ table' = db.table
           /\ ret' = SaveRet(db.exc, self, NoRow, t)
    /\ UNCHANGED <<inst, cls>>
    /\ UNCHANGED treeVars

\* a row loaded from the table, its store, key, type and value assigned
\* (t is the type the object carries when save is called), then save()
SaveExisting(old, s, k, t, v) ==
    /\ old \in table
    /\ LET self == MkRow(old.host, old.user, s, k, SaveType(s, k), v)
           db   == DbUpdate(table, old, self)
       IN  /\ table' = db.table
           /\ ret' = SaveRet(db.exc, self, old, t)
    /\ UNCHANGED <<inst, cls>>
    /\ UNCHANGED treeVars

\* ProsodyDatastore.get_data_store(username, domain, store)
GetDataStore(username, domain, store) ==
    /\ \E items \in Orders({ r \in table : MatchesDataStore(r, username, domain, store) }) :
          ret' = DataStoreRet(username, domain, store, DictOfRows(items, Len(items)))
    /\ UNCHANGED <<table, inst, cls>>
    /\ UNCHANGED treeVars

\* the rows the query of line 135 yields for instance u, in some order
LastlogItems(u) == Orders({ r \in table : MatchesLastlog(r, inst[u].username) })

\* u._get_lastlog(key)
GetLastlogCall(u, key) ==
    /\ \E items \in LastlogItems(u) :
          LET g == GetLastlog(inst, cls, u, key, items)
          IN  /\ inst' = g.inst
              /\ cls' = g.cls
              /\ ret' = LastlogRet("_get_lastlog", u, key, g, g.exc, g.val)
    /\ UNCHANGED table
    /\ UNCHANGED treeVars

\* u.xmpp_online (lines 83-87)
XmppOnline(u) ==
    /\ \E items \in LastlogItems(u) :
          LET g == GetLastlog(inst, cls, u, "event", items)
          IN  /\ inst' = g.inst
              /\ cls' = g.cls
              /\ ret' = LastlogRet("xmpp_online", u, "event", g, g.exc,
                                   IF g.exc = "none" THEN PyBool(g.val = PyStr(Login))
                                   ELSE PyNone)
    /\ UNCHANGED table
    /\ UNCHANGED treeVars

\* u.xmpp_last_login (lines 90-93)
XmppLastLogin(u) ==
    /\ \E items \in LastlogItems(u) :
          LET g == GetLastlog(inst, cls, u, "timestamp", items)
              d == UtcFromTimestamp(g.val)
          IN  /\ inst' = g.inst
              /\ cls' = g.cls
              /\ ret' = LastlogRet("xmpp_last_login", u, "timestamp", g,
                                   IF g.exc = "none" THEN d.exc ELSE g.exc,
                                   IF g.exc = "none" THEN d.val ELSE PyNone)
    /\ UNCHANGED table
    /\ UNCHANGED treeVars

\* u.xmpp_last_ip (lines 96-97)
XmppLastIp(u) ==
    /\ \E items \in LastlogItems(u) :
          LET g == GetLastlog(inst, cls, u, "ip", items)
          IN  /\ inst' = g.inst
              /\ cls' = g.cls
              /\ ret' = LastlogRet("xmpp_last_ip", u, "ip", g, g.exc, g.val)
    /\ UNCHANGED table
    /\ UNCHANGED treeVars

(***************************************************************************)
(* Prosody.save alone, over the combinations of store and key              *)
(***************************************************************************)
SaveStores == {"lastlog", "accounts", "roster"}
SaveKeys   == {"timestamp", "iterations", "persistence"}

NextSave ==
    \/ \E s \in SaveStores, k \in SaveKeys, t \in Types :
          SaveNew(XOrg, Bob, s, k, t, Ten)
    \/ \E old \in table, s \in SaveStores, k \in SaveKeys, t \in Types :
          SaveExisting(old, s, k, t, Ten)

SpecSave == InitStoreOnly /\ [][NextSave]_vars

(***************************************************************************)
(* Rows written for several users and hosts, read with get_data_store      *)
(***************************************************************************)
\* the (user, store, key) a row is written under
RowSlots ==
    { <<Bob, "lastlog", "timestamp">>, <<Bob, "lastlog", "event">>,
      <<BobC, "lastlog", "timestamp">>, <<BobC, "lastlog", "event">>,
      <<Amy, "lastlog", "timestamp">>, <<Bob, "roster", "event">> }
RowHosts   == {XOrg, YOrg}
RowValues  == {Ten, Login}
ArgUsers   == {BOB, Amy}
ArgDomains == {XORG, YOrg}
ArgStores  == {"lastlog", "roster"}

NextDatastore ==
    \/ \E h \in RowHosts, a \in RowSlots, v \in RowValues :
          SaveNew(h, a[1], a[2], a[3], "string", v)
    \/ \E old \in table, v \in RowValues :
          SaveExisting(old, old.store, old.key, old.type, v)
    \/ \E username \in ArgUsers, domain \in ArgDomains, s \in ArgStores :
          GetDataStore(username, domain, s)

SpecDatastore == InitStoreOnly /\ [][NextDatastore]_vars

(***************************************************************************)
(* Rows written for several users, read through User instances             *)
(***************************************************************************)
\* the (user, store, key, value) written: timestamps of two spellings of one
\* user name and of another user, decimal or not, an event, a roster entry
LastlogWrites ==
    { <<Bob, "lastlog", "timestamp", Ten>>,    <<Bob, "lastlog", "timestamp", Login>>,
      <<BobC, "lastlog", "timestamp", Seven>>, <<BobC, "lastlog", "timestamp", Login>>,
      <<Bob, "lastlog", "event", Login>>,      <<Bob, "lastlog", "event", Ten>>,
      <<Amy, "lastlog", "timestamp", Seven>>,  <<Bob, "roster", "event", Ten>> }
LastlogKeys == {"timestamp", "event"}

NextLastlog ==
    \/ \E w \in LastlogWrites :
          SaveNew(XOrg, w[1], w[2], w[3], "string", w[4])
    \/ \E old \in table, w \in LastlogWrites :
          /\ <<w[1], w[2], w[3]>> = <<old.user, old.store, old.key>>
          /\ SaveExisting(old, old.store, old.key, old.type, w[4])
    \/ \E u \in Instances, k \in LastlogKeys : GetLastlogCall(u, k)
    \/ \E u \in Instances : XmppOnline(u)
    \/ \E u \in Instances : XmppLastLogin(u)
    \/ \E u \in Instances : XmppLastIp(u)

SpecLastlog == InitStoreOnly /\ [][NextLastlog]_vars

(***************************************************************************)
(* Reading the output of make_tree                                         *)
(***************************************************************************)
Opens(h)  == Cardinality({ k \in 1..Len(h) : h[k].tag = "open" })
Closes(h) == Cardinality({ k \in 1..Len(h) : h[k].tag = "close" })
Prefix(h, k) == SubSeq(h, 1, k)

\* no prefix of the output closes more containers than it has opened
NoStrayClose(h) == \A k \in 1..Len(h) : Closes(Prefix(h, k)) <= Opens(Prefix(h, k))

\* the containers of the posts, in the order they were opened
OpenedPks(h) ==
    LET at == { k \in 1..Len(h) : h[k].tag = "open" /\ h[k].class = "" }
    IN  { h[k].pk : k \in at }

\* wrapper open, then per post its open immediately followed by a close
RECURSIVE FlatBody(_, _)
FlatBody(s, n) ==
    IF n = 0 THEN <<WrapperOpen>>
    ELSE FlatBody(s, n - 1) \o <<Line(s[n], current_post), CloseTag>>

\* the earlier posts whose interval strictly contains that of post i
Ancestors(s, i) == { j \in 1..(i - 1) : Contains(s[j], s[i]) }

ParentTwoChildren == <<MkPost(1, 1, 6), MkPost(2, 2, 3), MkPost(3, 4, 5)>>
SinglePost == <<MkPost(1, 1, 2)>>

(***************************************************************************)
(* C1: for a well-formed sequence sorted by left, the output holds one     *)
(* opening container and one closing tag per post plus the wrapper pair,   *)
(* no prefix of it closes more than it opened, and the single post (1,2)   *)
(* yields the wrapper around exactly one open/close pair.                  *)
(***************************************************************************)
C1_OnePairPerPost ==
    /\ NoStrayClose(html)
    /\ pc = "done" =>
          /\ html[1] = WrapperOpen
          /\ Opens(html) = Len(posts) + 1
          /\ Closes(html) = Len(posts) + 1
          /\ OpenedPks(html) = { posts[i].pk : i \in 1..Len(posts) }
          /\ \A k \in 1..(Len(html) - 1) :
                Closes(Prefix(html, k)) < Opens(Prefix(html, k))
          /\ posts = SinglePost =>
                html = <<WrapperOpen, Line(posts[1], current_post), CloseTag, CloseTag>>

C1_Witness ==
    /\ pc = "done"
    /\ Len(posts) >= 3
    /\ \E i \in 1..Len(posts) : Ancestors(posts, i) # {}
    /\ \E i \in 1..Len(posts) : ~HasDescendants(posts[i])

(***************************************************************************)
(* C2: for a well-formed sequence sorted by left, when a post P is about   *)
(* to be emitted the levels stack holds exactly the right boundaries of    *)
(* the earlier posts that strictly contain P, outermost first: nothing     *)
(* with right <= P.left is still open and no ancestor has been closed.     *)
(* For [(1,6),(2,3),(4,5)] the parent closes after both children.          *)
(***************************************************************************)
C2_OpenAreAncestors ==
    /\ pc = "emit" =>
          LET anc == Ancestors(posts, idx)
          IN  /\ Len(levels) = Cardinality(anc)
              /\ { levels[k] : k \in 1..Len(levels) } = { posts[j].right : j \in anc }
              /\ \A k \in 1..Len(levels) : levels[k] > posts[idx].left
              /\ \A k \in 1..(Len(levels) - 1) : levels[k] > levels[k + 1]
              /\ Opens(html) - Closes(html) = Cardinality(anc) + 1
    /\ (pc = "done" /\ posts = ParentTwoChildren) =>
          html = <<WrapperOpen,
                   Line(posts[1], current_post),
                   Line(posts[2], current_post), CloseTag,
                   Line(posts[3], current_post), CloseTag,
                   CloseTag, CloseTag>>

C2_Witness ==
    /\ pc = "emit"
    /\ idx >= 3
    /\ Ancestors(posts, idx) # {}
    /\ \E j \in 1..(idx - 1) : HasDescendants(posts[j]) /\ posts[j].right < posts[idx].left

(***************************************************************************)
(* C7: make_tree ends in no fault on any input, malformed input included:  *)
(* reading the top of an empty stack is skipped, the pop is only reached   *)
(* with a non-empty stack, and the call returns the marked string.         *)
(***************************************************************************)
C7_NoFault ==
    /\ [](/\ pc # "fault"
          /\ pc = "body" => levels # <<>>
          /\ pc = "done" => result = MarkSafe(html))
    /\ <>(pc = "done")

C7_Witness ==
    /\ pc = "emit"
    /\ levels = <<>>
    /\ idx >= 2
    /\ ~(WellFormed(posts) /\ SortedByLeft(posts))
    /\ Closes(html) > 0

(***************************************************************************)
(* C8 as stated: for every sequence in which no post has a descendant in   *)
(* the sequence the output is the wrapper around one open immediately      *)
(* followed by its close per post, and the stack is empty between posts.   *)
(* Stated here for the well-formed sequences sorted by left only, the      *)
(* inputs most favourable to it.                                           *)
(***************************************************************************)
FlatInSequence(s) == \A i, j \in 1..Len(s) : ~Contains(s[i], s[j])

FlatShape ==
    /\ (pc = "for" /\ 0 < idx /\ idx < Len(posts)) => levels = <<>>
    /\ pc = "done" => html = Append(FlatBody(posts, Len(posts)), CloseTag)

C8_Original ==
    (WellFormed(posts) /\ SortedByLeft(posts) /\ FlatInSequence(posts)) => FlatShape

(***************************************************************************)
(* C8 amended: the same for every sequence, in any order, in which every   *)
(* post has right - left <= 1; the empty sequence yields the wrapper open  *)
(* followed by its close.                                                  *)
(***************************************************************************)
AllLeaves(s) == \A i \in 1..Len(s) : s[i].right - s[i].left <= 1

C8_FlatLeaves ==
    /\ AllLeaves(posts) => FlatShape
    /\ (posts = <<>> /\ pc = "done") => html = <<WrapperOpen, CloseTag>>

C8_Witness ==
    /\ pc = "done"
    /\ AllLeaves(posts)
    /\ Len(posts) >= 2

(***************************************************************************)
(* C9: on every input the depth counter equals the length of the stack     *)
(* after every iteration, the return step emits one close per container    *)
(* still open before the wrapper close, and the complete output holds as   *)
(* many closing tags as opening containers.                                *)
(***************************************************************************)
C9_DepthIsStack ==
    /\ [](/\ pc \in {"for", "done"} => depth = Len(levels)
          /\ pc = "done" => Closes(html) = Opens(html))
    /\ [][pc' = "done" =>
            html' = (html \o [k \in 1..Len(levels) |-> CloseTag]) \o <<CloseTag>>]_vars

C9_Witness ==
    /\ pc = "done"
    /\ Len(levels) >= 1
    /\ ~WellFormed(posts)
    /\ Closes(html) > Len(levels) + 1
(***************************************************************************)
(* Reading the store                                                       *)
(***************************************************************************)
\* two texts are equal up to the case of their letters
SameLetter(a, b) ==
    a = b \/ \E i \in 1..26 : {a, b} = {LowerCase[i], UpperCase[i]}
EqualIgnoringCase(x, y) ==
    Len(x) = Len(y) /\ \A i \in 1..Len(x) : SameLetter(x[i], y[i])

\* the rule table: the first rule that applies gives the type
TypeRules ==
    << [store |-> "lastlog",  key |-> "timestamp",   type |-> "number"],
       [store |-> "accounts", key |-> "iterations",  type |-> "number"],
       [store |-> "roster",   key |-> "*",           type |-> "json"],
       [store |-> "*",        key |-> "persistence", type |-> "boolean"] >>
RuleApplies(rule, store, key) ==
    rule.store \in {"*", store} /\ rule.key \in {"*", key}
TypeByRules(store, key) ==
    LET hits == { i \in 1..Len(TypeRules) : RuleApplies(TypeRules[i], store, key) }
    IN  IF hits = {} THEN "string"
        ELSE TypeRules[CHOOSE i \in hits : \A j \in hits : i <= j].type

\* the rows get_data_store was asked for
AskedRows ==
    { r \in table : /\ EqualIgnoringCase(r.user, ret.args[1])
                    /\ EqualIgnoringCase(r.host, ret.args[2])
                    /\ r.store = ret.args[3] }

\* the lastlog rows of the user of instance u
LastlogRowsOf(u) ==
    { r \in table : EqualIgnoringCase(r.user, inst[u].username) /\ r.store = "lastlog" }

\* text made of decimal digits only
IsDecimalText(t) == t # <<>> /\ \A i \in 1..Len(t) : IsDigit(t[i])

\* what the typed accessor owes for row r (a number row whose text is not
\* decimal has no typed value; no cache ever holds one for it)
TypedValue(r) ==
    IF r.type # "number" THEN PyStr(r.value)
    ELSE IF IsDecimalText(r.value) THEN PyInt(DecimalValue(r.value))
    ELSE PyNone

(***************************************************************************)
(* C3: every row written by save carries the type the ordered rule table   *)
(* gives for its (store, key): (lastlog, timestamp) and (accounts,         *)
(* iterations) number, roster json, persistence boolean, otherwise string; *)
(* the type the object carried before and the type of the row overwritten  *)
(* play no part, so roster/persistence is recorded as json.                *)
(***************************************************************************)
C3_TypeFromStoreAndKey ==
    /\ \A r \in table : r.type = TypeByRules(r.store, r.key)
    /\ ret.op = "save" =>
          /\ ret.row.type = TypeByRules(ret.row.store, ret.row.key)
          /\ (ret.row.store = "roster" /\ ret.row.key = "persistence") =>
                ret.row.type = "json"
          /\ ret.exc = "none" => ret.row \in table

C3_Witness ==
    /\ ret.op = "save"
    /\ ret.exc = "none"
    /\ ret.row.store = "roster"
    /\ ret.row.key = "persistence"
    /\ ret.prior = "boolean"
    /\ ret.old.type = "number"
    /\ ret.row \in table

(***************************************************************************)
(* C4 as stated: after a lastlog/timestamp row holding decimal text has    *)
(* been written for a user, _get_lastlog('timestamp') on an instance of    *)
(* that user that has not fetched yet returns the integer the text         *)
(* denotes; rows of another type are returned as their raw text.  Stated   *)
(* here for the tables most favourable to it, those in which every         *)
(* number-typed lastlog row of the user holds decimal text.                *)
(***************************************************************************)
C4_Original ==
    (/\ ret.op = "_get_lastlog"
     /\ ret.fetched
     /\ \A r \in LastlogRowsOf(ret.inst) : r.type = "number" => IsDecimalText(r.value)) =>
        \A r \in LastlogRowsOf(ret.inst) :
            r.key = ret.key => ret.exc = "none" /\ ret.val = TypedValue(r)

(***************************************************************************)
(* C4 amended: when every number-typed lastlog row matching the user's     *)
(* name case-insensitively holds decimal text, the call returns, for the   *)
(* key asked, the typed value of one of the matching rows with that key    *)
(* (an integer for a number row, the raw text otherwise), hence of the     *)
(* written row itself whenever it is the only matching row with that key,  *)
(* and None when there is none; "10" under timestamp comes back as 10.     *)
(***************************************************************************)
C4_TypedRoundTrip ==
    (ret.op = "_get_lastlog" /\ ret.fetched) =>
        LET rows  == LastlogRowsOf(ret.inst)
            asked == { r \in rows : r.key = ret.key }
        IN  (\A r \in rows : r.type = "number" => IsDecimalText(r.value)) =>
               /\ ret.exc = "none"
               /\ \A r \in rows : r.key = "timestamp" => r.type = "number"
               /\ IF asked = {} THEN ret.val = PyNone
                  ELSE \E r \in asked : ret.val = TypedValue(r)
               /\ \A r \in asked :
                     (r.key = "timestamp" /\ r.value = Ten /\ asked = {r}) =>
                        ret.val = PyInt(10)

C4_Witness ==
    /\ ret.op = "_get_lastlog"
    /\ ret.fetched
    /\ ret.exc = "none"
    /\ ret.key = "timestamp"
    /\ ret.val = PyInt(10)
    /\ \E r \in LastlogRowsOf(ret.inst) :
          r.key = "timestamp" /\ r.value = Ten /\ r.user # inst[ret.inst].username
    /\ \E r \in LastlogRowsOf(ret.inst) : r.key = "event" /\ r.type = "string"

(***************************************************************************)
(* C5 as stated: the mapping get_data_store returns holds key -> raw       *)
(* value for every row whose user and host equal the arguments up to case  *)
(* and whose store equals the argument, and nothing else; no matching row  *)
(* gives the empty mapping and no error.                                   *)
(***************************************************************************)
C5_Original ==
    ret.op = "get_data_store" =>
        /\ ret.exc = "none"
        /\ \A r \in AskedRows :
              r.key \in DOMAIN ret.map /\ ret.map[r.key] = PyStr(r.value)
        /\ \A k \in DOMAIN ret.map :
              \E r \in AskedRows : r.key = k /\ ret.map[k] = PyStr(r.value)
        /\ AskedRows = {} => ret.map = EmptyDict

(***************************************************************************)
(* C5 amended: the mapping holds exactly the keys of the matching rows,    *)
(* each with the raw value of one of the matching rows of that key, hence  *)
(* of every matching row whose key no other matching row shares; no        *)
(* matching row gives the empty mapping and no error.                      *)
(***************************************************************************)
C5_RawMapping ==
    ret.op = "get_data_store" =>
        /\ ret.exc = "none"
        /\ DOMAIN ret.map = { r.key : r \in AskedRows }
        /\ \A k \in DOMAIN ret.map :
              \E r \in AskedRows : r.key = k /\ ret.map[k] = PyStr(r.value)
        /\ \A r \in AskedRows :
              (\A q \in AskedRows : q.key = r.key => q = r) =>
                 ret.map[r.key] = PyStr(r.value)
        /\ AskedRows = {} => ret.map = EmptyDict

C5_Witness ==
    /\ ret.op = "get_data_store"
    /\ \E r \in AskedRows : r.type = "number" /\ r.user # ret.args[1] /\ r.host # ret.args[2]
    /\ \E r \in table : r \notin AskedRows
    /\ ret.map # EmptyDict

(***************************************************************************)
(* C6: the lastlog cache belongs to one User instance and is filled by its *)
(* first _get_lastlog call only: a filled cache never changes, later calls *)
(* on the instance (the xmpp_* properties included) answer from it without *)
(* reading the store even when rows have been written since, a first call  *)
(* reads the store and binds the mapping on that instance alone, and the   *)
(* class attribute stays None, so no other instance sees the mapping.      *)
(***************************************************************************)
C6_CachePerInstance ==
    /\ [](cls = AttrNone)
    /\ [][\A u \in Instances : inst[u].set => inst'[u] = inst[u]]_vars
    /\ [][(ret'.op \in LastlogOps /\ (ret' # ret \/ inst' # inst)) =>
            LET u == ret'.inst
            IN  IF inst[u].set
                THEN /\ ~ret'.fetched
                     /\ ret'.got = DictGet(inst[u].attr.data, ret'.key)
                     /\ inst' = inst
                ELSE /\ ret'.fetched
                     /\ inst'[u].set
                     /\ ~inst'[u].attr.none
                     /\ \A w \in Instances \ {u} : inst'[w] = inst[w]
                     /\ \A k \in DOMAIN inst'[u].attr.data :
                           \E r \in LastlogRowsOf(u) :
                              r.key = k /\ inst'[u].attr.data[k] = TypedValue(r)]_vars

C6_Witness ==
    /\ ret.op \in LastlogOps
    /\ ~ret.fetched
    /\ ret.got # PyNone
    /\ \A r \in LastlogRowsOf(ret.inst) : r.key = ret.key => TypedValue(r) # ret.got
    /\ \A u \in Instances : inst[u].set
    /\ inst["u1"].attr # inst["u2"].attr

(***************************************************************************)
(* C10 as stated: when the first _get_lastlog call on an instance fails on *)
(* a number-typed row holding non-numeric text, the cache of the instance  *)
(* is left unset, so that a later call fetches and fails again.            *)
(***************************************************************************)
C10_Original ==
    (ret.op \in LastlogOps /\ ret.exc = "ValueError") =>
        LastlogData(inst, cls, ret.inst).none
====
